---- MODULE Spec2Model ----
(***************************************************************************)
(* Model of the stream pallet (pallets/stream/src/lib.rs): the three       *)
(* dispatchables create, update and set_status acting on the storage maps  *)
(* Streams, Commits, Links and Hashes and on the deposited events.         *)
(***************************************************************************)
EXTENDS Integers, Sequences, FiniteSets, TLC

\* ------------------------------------------------------------------ bounds
MaxOps == 3          \* successful dispatches in one behaviour

\* ------------------------------------------------------------ input domains
Ids == 1..2                          \* IdOf<T> values used as identifiers
HashVals == 2..3                     \* HashOf<T> values (same type as IdOf<T>)
Accounts == {"a", "b"}               \* CordAccountOf<T>
Origins == Accounts \cup {"none"}    \* OriginFor<T>; "none" does not resolve
Cids == {"c1", "c2", "bad"}          \* IdentifierOf; "bad" is malformed
CreateHashes == {3}                  \* the hashes records are anchored with
CreateCids == {"c1", "bad"}          \* the cids offered to create
Schemas == {1}                       \* schema identifiers
Blocks == 1..2                       \* BlockNumberOf<T> of the blocks holding calls

None == <<>>
Some(x) == <<x>>
OptCids == {None} \cup {Some(c) : c \in Cids}
OptCreateCids == {None} \cup {Some(c) : c \in CreateCids}
OptSchemas == {None} \cup {Some(s) : s \in Schemas}
OptLinks == {None} \cup {Some(i) : i \in Ids}

VARIABLES Streams, Commits, Links, Hashes, events, block_number

vars == <<Streams, Commits, Links, Hashes, events, block_number>>

\* The four storage maps and the event log as one value.
Store == [Streams |-> Streams, Commits |-> Commits, Links |-> Links,
          Hashes |-> Hashes, events |-> events]

\* ------------------------------------------------------------ storage maps
\* StorageMap::insert
insert(m, k, v) == [x \in (DOMAIN m) \cup {k} |-> IF x = k THEN v ELSE m[x]]

\* StorageMap::get(..).unwrap_or_default() for Vec values
get_or_default(m, k) == IF k \in DOMAIN m THEN m[k] ELSE <<>>

\* Pallet::commits(identifier) and Pallet::links(identifier), empty when absent
history(commits, id) == get_or_default(commits, id)
links_of(links, id) == get_or_default(links, id)

\* ------------------------------------------------------------ collaborators
\* EnsureOrigin::ensure_origin(origin)?
ensure_origin(origin) ==
    IF origin \in Accounts THEN [ok |-> TRUE, val |-> origin]
    ELSE [ok |-> FALSE, val |-> origin]

\* pallet_schema::SchemaDetails::is_valid(cid)
is_valid(cid) == cid # "bad"

\* pallet_schema::SchemaDetails::schema_status(schema, controller): the schema
\* pallet holds every schema of Schemas as active and owned by account "a".
schema_status(schema, controller) == schema \in Schemas /\ controller = "a"

\* StreamCommit::store_tx: push the commit onto the identifier's vector
store_tx(st, identifier, tx_commit) ==
    [st EXCEPT !.Commits =
        insert(st.Commits, identifier,
               Append(get_or_default(st.Commits, identifier), tx_commit))]

\* StreamLink::link_tx: push the link onto the target's vector
link_tx(st, link, tx_link) ==
    [st EXCEPT !.Links =
        insert(st.Links, link,
               Append(get_or_default(st.Links, link), tx_link))]

\* Pallet::deposit_event
deposit_event(st, ev) == [st EXCEPT !.events = Append(st.events, ev)]

Result(r, st) == [res |-> r, st |-> st]

\* ------------------------------------------------------------------ create
\* createPre without the check of the link target's revoked flag
createPre_noRevokedCheck(st, controller, a) ==
    IF a.hash = a.identifier THEN "SameIdentifierAndHash"
    ELSE IF a.cid # None /\ ~is_valid(a.cid[1]) THEN "InvalidCidEncoding"
    ELSE IF a.identifier \in DOMAIN st.Streams THEN "StreamAlreadyAnchored"
    ELSE IF a.schema # None /\ ~schema_status(a.schema[1], controller) THEN "SchemaError"
    ELSE IF a.link # None /\ a.link[1] \notin DOMAIN st.Streams THEN "StreamLinkNotFound"
    ELSE "Ok"

\* createPre reporting a revoked link target as a missing one
createPre_revokedAsNotFound(st, controller, a) ==
    IF a.hash = a.identifier THEN "SameIdentifierAndHash"
    ELSE IF a.cid # None /\ ~is_valid(a.cid[1]) THEN "InvalidCidEncoding"
    ELSE IF a.identifier \in DOMAIN st.Streams THEN "StreamAlreadyAnchored"
    ELSE IF a.schema # None /\ ~schema_status(a.schema[1], controller) THEN "SchemaError"
    ELSE IF a.link # None /\ a.link[1] \notin DOMAIN st.Streams THEN "StreamLinkNotFound"
    ELSE IF a.link # None /\ st.Streams[a.link[1]].revoked THEN "StreamLinkNotFound"
    ELSE "Ok"

\* createPre without the check that the identifier is not anchored yet
createPre_noAnchoredCheck(st, controller, a) ==
    IF a.hash = a.identifier THEN "SameIdentifierAndHash"
    ELSE IF a.cid # None /\ ~is_valid(a.cid[1]) THEN "InvalidCidEncoding"
    ELSE IF a.schema # None /\ ~schema_status(a.schema[1], controller) THEN "SchemaError"
    ELSE IF a.link # None /\ a.link[1] \notin DOMAIN st.Streams THEN "StreamLinkNotFound"
    ELSE IF a.link # None /\ st.Streams[a.link[1]].revoked THEN "StreamLinkRevoked"
    ELSE "Ok"

\* The checks of create after the origin is resolved, in source order:
\* the first failing one names the error, "Ok" when all pass.
createPre(st, controller, a) ==
    IF a.hash = a.identifier THEN "SameIdentifierAndHash"
    ELSE IF a.cid # None /\ ~is_valid(a.cid[1]) THEN "InvalidCidEncoding"
    ELSE IF a.identifier \in DOMAIN st.Streams THEN "StreamAlreadyAnchored"
    ELSE IF a.schema # None /\ ~schema_status(a.schema[1], controller) THEN "SchemaError"
    ELSE IF a.link # None /\ a.link[1] \notin DOMAIN st.Streams THEN "StreamLinkNotFound"
    ELSE IF a.link # None /\ st.Streams[a.link[1]].revoked THEN "StreamLinkRevoked"
    ELSE "Ok"

\* createLink naming the link target instead of the new record
createLink_target(controller, a) ==
    [identifier |-> a.link[1], controller |-> controller]

\* StreamLink { identifier, controller } handed to link_tx
createLink(controller, a) ==
    [identifier |-> a.identifier, controller |-> controller]

\* StreamCommit { hash, cid, block, commit: Genesis }
createCommit(a) ==
    [hash |-> a.hash, cid |-> a.cid, block |-> a.block, commit |-> "Genesis"]

\* createDetails with the revoked flag set
createDetails_revoked(controller, a) ==
    [hash |-> a.hash, cid |-> a.cid, parent_cid |-> None, schema |-> a.schema,
     link |-> a.link, controller |-> controller, block |-> a.block,
     revoked |-> TRUE]

\* StreamDetails written by create
createDetails(controller, a) ==
    [hash |-> a.hash, cid |-> a.cid, parent_cid |-> None, schema |-> a.schema,
     link |-> a.link, controller |-> controller, block |-> a.block,
     revoked |-> FALSE]

\* createApply writing Hashes only when the hash is not mapped yet
createApply_firstWriterWins(st, controller, a) ==
    LET st1 == IF a.link # None
               THEN link_tx(st, a.link[1], createLink(controller, a))
               ELSE st
        st2 == store_tx(st1, a.identifier, createCommit(a))
        st3 == IF a.hash \in DOMAIN st2.Hashes THEN st2
               ELSE [st2 EXCEPT !.Hashes = insert(st2.Hashes, a.hash, a.identifier)]
        st4 == [st3 EXCEPT !.Streams =
                   insert(st3.Streams, a.identifier, createDetails(controller, a))]
    IN deposit_event(st4, <<"TxAdd", a.identifier, a.hash, controller>>)

\* The writes of create, in source order.
createApply(st, controller, a) ==
    LET st1 == IF a.link # None
               THEN link_tx(st, a.link[1], createLink(controller, a))
               ELSE st
        st2 == store_tx(st1, a.identifier, createCommit(a))
        st3 == [st2 EXCEPT !.Hashes = insert(st2.Hashes, a.hash, a.identifier)]
        st4 == [st3 EXCEPT !.Streams =
                   insert(st3.Streams, a.identifier, createDetails(controller, a))]
    IN deposit_event(st4, <<"TxAdd", a.identifier, a.hash, controller>>)

\* create with link_tx called before the link target's revoked flag is checked
create_linkBeforeCheck(st, a) ==
    LET o == ensure_origin(a.origin) IN
    IF ~o.ok THEN Result("BadOrigin", st)
    ELSE LET e == createPre(st, o.val, a) IN
         IF e = "StreamLinkRevoked"
         THEN Result(e, link_tx(st, a.link[1], createLink(o.val, a)))
         ELSE IF e # "Ok" THEN Result(e, st)
         ELSE Result("Ok", createApply(st, o.val, a))

create(st, a) ==
    LET o == ensure_origin(a.origin) IN
    IF ~o.ok THEN Result("BadOrigin", st)
    ELSE LET e == createPre(st, o.val, a) IN
         IF e # "Ok" THEN Result(e, st)
         ELSE Result("Ok", createApply(st, o.val, a))

\* ------------------------------------------------------------------ update
\* updatePre without the comparison of the updater with the stored controller
updatePre_noControllerCheck(st, updater, a) ==
    IF a.hash = a.identifier THEN "SameIdentifierAndHash"
    ELSE IF a.identifier \notin DOMAIN st.Streams THEN "StreamNotFound"
    ELSE LET tx_prev == st.Streams[a.identifier] IN
         IF a.cid # None /\ tx_prev.cid = None THEN "Panic"
         ELSE IF a.cid # None /\ a.cid = tx_prev.cid THEN "CidAlreadyAnchored"
         ELSE IF a.cid # None /\ ~is_valid(a.cid[1]) THEN "InvalidCidEncoding"
         ELSE IF tx_prev.revoked THEN "StreamRevoked"
         ELSE "Ok"

\* updatePre without the comparison of the hash with the identifier
updatePre_noHashCheck(st, updater, a) ==
    IF a.identifier \notin DOMAIN st.Streams THEN "StreamNotFound"
    ELSE LET tx_prev == st.Streams[a.identifier] IN
         IF a.cid # None /\ tx_prev.cid = None THEN "Panic"
         ELSE IF a.cid # None /\ a.cid = tx_prev.cid THEN "CidAlreadyAnchored"
         ELSE IF a.cid # None /\ ~is_valid(a.cid[1]) THEN "InvalidCidEncoding"
         ELSE IF tx_prev.revoked THEN "StreamRevoked"
         ELSE IF tx_prev.controller # updater THEN "UnauthorizedOperation"
         ELSE "Ok"

\* updatePre without the check that the record is not revoked
updatePre_noRevokedCheck(st, updater, a) ==
    IF a.hash = a.identifier THEN "SameIdentifierAndHash"
    ELSE IF a.identifier \notin DOMAIN st.Streams THEN "StreamNotFound"
    ELSE LET tx_prev == st.Streams[a.identifier] IN
         IF a.cid # None /\ tx_prev.cid = None THEN "Panic"
         ELSE IF a.cid # None /\ a.cid = tx_prev.cid THEN "CidAlreadyAnchored"
         ELSE IF a.cid # None /\ ~is_valid(a.cid[1]) THEN "InvalidCidEncoding"
         ELSE IF tx_prev.controller # updater THEN "UnauthorizedOperation"
         ELSE "Ok"

\* The checks of update after the origin is resolved, in source order.
\* tx_prev.cid.as_ref().unwrap() panics when the stored cid is None.
updatePre(st, updater, a) ==
    IF a.hash = a.identifier THEN "SameIdentifierAndHash"
    ELSE IF a.identifier \notin DOMAIN st.Streams THEN "StreamNotFound"
    ELSE LET tx_prev == st.Streams[a.identifier] IN
         IF a.cid # None /\ tx_prev.cid = None THEN "Panic"
         ELSE IF a.cid # None /\ a.cid = tx_prev.cid THEN "CidAlreadyAnchored"
         ELSE IF a.cid # None /\ ~is_valid(a.cid[1]) THEN "InvalidCidEncoding"
         ELSE IF tx_prev.revoked THEN "StreamRevoked"
         ELSE IF tx_prev.controller # updater THEN "UnauthorizedOperation"
         ELSE "Ok"

\* updateCommit tagging the entry as a Genesis commit
updateCommit_genesis(a) ==
    [hash |-> a.hash, cid |-> a.cid, block |-> a.block, commit |-> "Genesis"]

\* updateCommit recording no cid
updateCommit_noCid(a) ==
    [hash |-> a.hash, cid |-> None, block |-> a.block, commit |-> "Update"]

\* StreamCommit { hash, cid, block, commit: Update }
updateCommit(a) ==
    [hash |-> a.hash, cid |-> a.cid, block |-> a.block, commit |-> "Update"]

\* updateDetails keeping the stored parent_cid (parent_cid left to ..tx_prev)
updateDetails_keepParent(tx_prev, updater, a) ==
    [tx_prev EXCEPT !.hash = a.hash, !.cid = a.cid,
                    !.controller = updater, !.block = a.block]

\* StreamDetails { hash, cid, parent_cid, controller, block, ..tx_prev }
updateDetails(tx_prev, updater, a) ==
    [tx_prev EXCEPT !.hash = a.hash, !.cid = a.cid, !.parent_cid = tx_prev.cid,
                    !.controller = updater, !.block = a.block]

\* The writes of update, in source order.
updateApply(st, updater, a) ==
    LET tx_prev == st.Streams[a.identifier]
        st1 == store_tx(st, a.identifier, updateCommit(a))
        st2 == [st1 EXCEPT !.Hashes = insert(st1.Hashes, a.hash, a.identifier)]
        st3 == [st2 EXCEPT !.Streams =
                   insert(st2.Streams, a.identifier, updateDetails(tx_prev, updater, a))]
    IN deposit_event(st3, <<"TxUpdate", a.identifier, a.hash, updater>>)

update(st, a) ==
    LET o == ensure_origin(a.origin) IN
    IF ~o.ok THEN Result("BadOrigin", st)
    ELSE LET e == updatePre(st, o.val, a) IN
         IF e # "Ok" THEN Result(e, st)
         ELSE Result("Ok", updateApply(st, o.val, a))

\* -------------------------------------------------------------- set_status
\* statusPre without the comparison of the status with the stored flag
statusPre_noChangeCheck(st, updater, a) ==
    IF a.identifier \notin DOMAIN st.Streams THEN "StreamNotFound"
    ELSE LET tx_status == st.Streams[a.identifier] IN
         IF tx_status.controller # updater THEN "UnauthorizedOperation"
         ELSE "Ok"

\* The checks of set_status after the origin is resolved, in source order.
statusPre(st, updater, a) ==
    IF a.identifier \notin DOMAIN st.Streams THEN "StreamNotFound"
    ELSE LET tx_status == st.Streams[a.identifier] IN
         IF tx_status.revoked = a.status THEN "StatusChangeNotRequired"
         ELSE IF tx_status.controller # updater THEN "UnauthorizedOperation"
         ELSE "Ok"

\* statusCommit carrying the record's parent_cid as its cid
statusCommit_parentCid(tx_status, a) ==
    [hash |-> tx_status.hash, cid |-> tx_status.parent_cid, block |-> a.block,
     commit |-> "StatusChange"]

\* StreamCommit { hash: tx_status.hash, cid: tx_status.cid, block, StatusChange }
statusCommit(tx_status, a) ==
    [hash |-> tx_status.hash, cid |-> tx_status.cid, block |-> a.block,
     commit |-> "StatusChange"]

\* statusDetails leaving the block to ..tx_status
statusDetails_keepBlock(tx_status, a) ==
    [tx_status EXCEPT !.revoked = a.status]

\* StreamDetails { block, revoked: status, ..tx_status }
statusDetails(tx_status, a) ==
    [tx_status EXCEPT !.block = a.block, !.revoked = a.status]

\* statusApply writing the record without the store_tx call
statusApply_noCommit(st, updater, a) ==
    LET tx_status == st.Streams[a.identifier]
        st2 == [st EXCEPT !.Streams =
                   insert(st.Streams, a.identifier, statusDetails(tx_status, a))]
    IN deposit_event(st2, <<"TxStatus", a.identifier, updater>>)

\* The writes of set_status, in source order.
statusApply(st, updater, a) ==
    LET tx_status == st.Streams[a.identifier]
        st1 == store_tx(st, a.identifier, statusCommit(tx_status, a))
        st2 == [st1 EXCEPT !.Streams =
                   insert(st1.Streams, a.identifier, statusDetails(tx_status, a))]
    IN deposit_event(st2, <<"TxStatus", a.identifier, updater>>)

set_status(st, a) ==
    LET o == ensure_origin(a.origin) IN
    IF ~o.ok THEN Result("BadOrigin", st)
    ELSE LET e == statusPre(st, o.val, a) IN
         IF e # "Ok" THEN Result(e, st)
         ELSE Result("Ok", statusApply(st, o.val, a))

\* ------------------------------------------------------------------ inputs
\* The argument lists the dispatchables can be called with in the current
\* block; the claims range over all of them in every reachable state.
CreateArgs ==
    [origin : Origins, identifier : Ids, hash : HashVals, cid : OptCreateCids,
     schema : OptSchemas, link : OptLinks, block : {block_number}]

UpdateArgs ==
    [origin : Origins, identifier : Ids, hash : HashVals, cid : OptCids,
     block : {block_number}]

StatusArgs ==
    [origin : Origins, identifier : Ids, status : BOOLEAN,
     block : {block_number}]

\* ----------------------------------------------------------- specification
Init ==
    /\ Streams = <<>>
    /\ Commits = <<>>
    /\ Links = <<>>
    /\ Hashes = <<>>
    /\ events = <<>>
    /\ block_number = 1

\* One dispatch.  A call that returns an error (or panics) writes nothing, so
\* it leaves every variable unchanged: it is a stuttering step of Spec, and
\* only a call that returns Ok changes the state.
Dispatch(r) ==
    /\ r.res = "Ok"
    /\ Len(events) < MaxOps
    /\ Streams' = r.st.Streams
    /\ Commits' = r.st.Commits
    /\ Links' = r.st.Links
    /\ Hashes' = r.st.Hashes
    /\ events' = r.st.events
    /\ UNCHANGED block_number

\* Records are anchored with a hash of CreateHashes; update moves them to the
\* other hashes.
Create ==
    \E a \in CreateArgs :
        /\ a.hash \in CreateHashes
        /\ Dispatch(create(Store, a))

Update == \E a \in UpdateArgs : Dispatch(update(Store, a))

SetStatus == \E a \in StatusArgs : Dispatch(set_status(Store, a))

\* The ledger moves to the next block.
NextBlock ==
    /\ block_number + 1 \in Blocks
    /\ block_number' = block_number + 1
    /\ UNCHANGED <<Streams, Commits, Links, Hashes, events>>

Next == Create \/ Update \/ SetStatus \/ NextBlock

Spec == Init /\ [][Next]_vars

\* ------------------------------------------- specification for the link table
\* A second specification over three identifiers, so that a target can be
\* linked from two sources and links can form a chain.  The calls are those
\* of Spec with signed origins, one hash that is no identifier, and no cid or
\* schema; the block stays the first one.
LinkIds == 1..3
LinkHashes == {4}

LinkCreateArgs ==
    [origin : Accounts, identifier : LinkIds, hash : LinkHashes, cid : {None},
     schema : {None}, link : {None} \cup {Some(t) : t \in LinkIds},
     block : {block_number}]

LinkUpdateArgs ==
    [origin : Accounts, identifier : LinkIds, hash : LinkHashes, cid : {None},
     block : {block_number}]

LinkStatusArgs ==
    [origin : Accounts, identifier : LinkIds, status : BOOLEAN,
     block : {block_number}]

CreateLinked == \E a \in LinkCreateArgs : Dispatch(create(Store, a))

UpdateLinked == \E a \in LinkUpdateArgs : Dispatch(update(Store, a))

SetStatusLinked == \E a \in LinkStatusArgs : Dispatch(set_status(Store, a))

NextLinks == CreateLinked \/ UpdateLinked \/ SetStatusLinked

SpecLinks == Init /\ [][NextLinks]_vars

\* ------------------------------------------------------------------ claims
IsPrefix(s, t) == Len(s) <= Len(t) /\ \A i \in 1..Len(s) : s[i] = t[i]

\* The last deposited event is ev (the last successful dispatch).
LastEventIs(ev) == Len(events) > 0 /\ events[Len(events)] = ev

\* The number of deposited events about record id.
EventCount(id) == Cardinality({i \in 1..Len(events) : events[i][2] = id})

\* The caller resolves to a controller other than the one stored for id.
NotController(origin, id) ==
    /\ id \in DOMAIN Streams
    /\ ensure_origin(origin).ok
    /\ ensure_origin(origin).val # Streams[id].controller

\* C1: in every reachable state, a create, update or set_status call that
\* does not return Ok leaves Streams, Hashes, Commits, Links and the deposited
\* events exactly as they were.
C1_FailedCallChangesNothing ==
    /\ \A a \in CreateArgs : LET r == create(Store, a) IN r.res # "Ok" => r.st = Store
    /\ \A a \in UpdateArgs : LET r == update(Store, a) IN r.res # "Ok" => r.st = Store
    /\ \A a \in StatusArgs : LET r == set_status(Store, a) IN r.res # "Ok" => r.st = Store

\* A record with two commits whose update is refused to another account.
C1_Witness ==
    \E a \in UpdateArgs :
        /\ Len(history(Commits, a.identifier)) >= 2
        /\ Links # <<>>
        /\ update(Store, a).res = "UnauthorizedOperation"

\* C2 as stated: update and set_status by a caller whose resolved controller
\* differs from the record's controller fail with UnauthorizedOperation
\* whatever the other inputs and the record's state are.
C2_Original ==
    /\ \A a \in UpdateArgs : NotController(a.origin, a.identifier)
          => update(Store, a).res = "UnauthorizedOperation"
    /\ \A a \in StatusArgs : NotController(a.origin, a.identifier)
          => set_status(Store, a).res = "UnauthorizedOperation"

\* C2 amended: update and set_status by a caller whose resolved controller
\* differs from the record's controller never return Ok and change nothing;
\* the result is UnauthorizedOperation exactly when every check made before
\* the ownership check passes (update: hash # identifier, no cid or a valid
\* cid different from a stored one, record not revoked; set_status: status
\* different from the stored flag), and the earlier check's outcome otherwise.
C2_NonControllerNeverSucceeds ==
    /\ \A a \in UpdateArgs : NotController(a.origin, a.identifier) =>
          LET r == update(Store, a)
              cur == Streams[a.identifier]
          IN /\ r.res # "Ok"
             /\ r.st = Store
             /\ r.res = "UnauthorizedOperation" <=>
                   /\ a.hash # a.identifier
                   /\ a.cid # None =>
                         cur.cid # None /\ a.cid # cur.cid /\ is_valid(a.cid[1])
                   /\ ~cur.revoked
    /\ \A a \in StatusArgs : NotController(a.origin, a.identifier) =>
          LET r == set_status(Store, a)
              cur == Streams[a.identifier]
          IN /\ r.res # "Ok"
             /\ r.st = Store
             /\ r.res = "UnauthorizedOperation" <=> a.status # cur.revoked

\* A revoked record: another account's update is refused with StreamRevoked
\* and its repeated revocation with StatusChangeNotRequired.
C2_Witness ==
    /\ \E a \in UpdateArgs : NotController(a.origin, a.identifier)
          /\ update(Store, a).res = "StreamRevoked"
    /\ \E a \in StatusArgs : NotController(a.origin, a.identifier)
          /\ set_status(Store, a).res = "StatusChangeNotRequired"

\* The first commit of a non-empty history is Genesis and no later one is.
GenesisFirst(h) ==
    \A i \in 1..Len(h) : (h[i].commit = "Genesis") <=> (i = 1)

\* C3: across every step the commit history of each record before the step
\* is a prefix of its history after it, and in a non-empty history the first
\* entry is the only Genesis entry.
C3_HistoryAppendOnly ==
    [][\A id \in Ids :
          /\ IsPrefix(history(Commits, id), history(Commits', id))
          /\ GenesisFirst(history(Commits', id))]_vars

\* A record with a Genesis, an Update and a StatusChange commit.
C3_Witness ==
    \E id \in Ids :
        /\ Len(history(Commits, id)) = 3
        /\ history(Commits, id)[2].commit = "Update"
        /\ history(Commits, id)[3].commit = "StatusChange"

\* The commits of r differ from the current ones by one entry e appended to
\* the history of id.
AppendsOne(r, id, e) ==
    /\ DOMAIN r.st.Commits = (DOMAIN Commits) \cup {id}
    /\ r.st.Commits[id] = Append(history(Commits, id), e)
    /\ \A j \in (DOMAIN Commits) \ {id} : r.st.Commits[j] = Commits[j]

\* C4: every successful call appends exactly one commit entry, to the history
\* of its record only: create leaves exactly one Genesis entry with the given
\* hash, update appends an Update entry with the new hash and cid, set_status
\* a StatusChange entry; so a record's history is as long as the number of
\* successful calls on it, one of them its create.
C4_OneCommitPerSuccess ==
    /\ \A a \in CreateArgs : LET r == create(Store, a) IN r.res = "Ok" =>
          /\ AppendsOne(r, a.identifier, r.st.Commits[a.identifier][1])
          /\ Len(r.st.Commits[a.identifier]) = 1
          /\ r.st.Commits[a.identifier][1].commit = "Genesis"
          /\ r.st.Commits[a.identifier][1].hash = a.hash
    /\ \A a \in UpdateArgs : LET r == update(Store, a) IN r.res = "Ok" =>
          \E e \in {r.st.Commits[a.identifier][Len(r.st.Commits[a.identifier])]} :
              /\ AppendsOne(r, a.identifier, e)
              /\ e.commit = "Update" /\ e.hash = a.hash /\ e.cid = a.cid
    /\ \A a \in StatusArgs : LET r == set_status(Store, a) IN r.res = "Ok" =>
          \E e \in {r.st.Commits[a.identifier][Len(r.st.Commits[a.identifier])]} :
              /\ AppendsOne(r, a.identifier, e)
              /\ e.commit = "StatusChange"
    /\ \A id \in Ids :
          /\ Len(history(Commits, id)) = EventCount(id)
          /\ id \in DOMAIN Streams =>
                Cardinality({i \in 1..Len(events) :
                                events[i][1] = "TxAdd" /\ events[i][2] = id}) = 1

\* After create, update and set_status(true) the history has three entries
\* and the repeated set_status(true) is refused.
C4_Witness ==
    \E a \in StatusArgs :
        /\ a.status
        /\ Len(history(Commits, a.identifier)) = 3
        /\ history(Commits, a.identifier)[2].commit = "Update"
        /\ LastEventIs(<<"TxStatus", a.identifier, a.origin>>)
        /\ set_status(Store, a).res = "StatusChangeNotRequired"

\* C5 as stated: for an existing record, every set_status call whose status
\* equals the stored revoked flag fails with StatusChangeNotRequired.
C5_Original ==
    \A a \in StatusArgs :
        (a.identifier \in DOMAIN Streams /\ a.status = Streams[a.identifier].revoked)
            => set_status(Store, a).res = "StatusChangeNotRequired"

\* C5 amended: for an existing record, a set_status call by a caller that
\* resolves to a controller (the record's or another) whose status equals the
\* stored revoked flag fails with StatusChangeNotRequired and changes nothing,
\* and a caller that does not resolve fails with BadOrigin and changes
\* nothing; so right after a successful set_status(id, v) the same call by
\* the same caller fails with StatusChangeNotRequired.
C5_SameStatusRejected ==
    /\ \A a \in StatusArgs :
          (a.identifier \in DOMAIN Streams /\ a.status = Streams[a.identifier].revoked) =>
              LET r == set_status(Store, a) IN
              /\ r.st = Store
              /\ r.res = IF ensure_origin(a.origin).ok
                         THEN "StatusChangeNotRequired" ELSE "BadOrigin"
    /\ \A a \in StatusArgs :
          LET r == set_status(Store, a) IN
          r.res = "Ok" =>
              /\ set_status(r.st, a).res = "StatusChangeNotRequired"
              /\ set_status(r.st, a).st = r.st

\* set_status(id, false) has just succeeded (after an earlier set_status(id,
\* true)), and the same call repeated by the same caller is refused.
C5_Witness ==
    \E a \in StatusArgs :
        /\ ~a.status
        /\ LastEventIs(<<"TxStatus", a.identifier, a.origin>>)
        /\ ~Streams[a.identifier].revoked
        /\ set_status(Store, a).res = "StatusChangeNotRequired"

\* C6: after every successful update the record's parent_cid is the cid it
\* held immediately before the update (absent when that was absent), and its
\* hash and cid are the ones given to update.
C6_ParentIsPreviousCid ==
    \A a \in UpdateArgs :
        LET r == update(Store, a) IN
        r.res = "Ok" =>
            /\ r.st.Streams[a.identifier].parent_cid = Streams[a.identifier].cid
            /\ r.st.Streams[a.identifier].hash = a.hash
            /\ r.st.Streams[a.identifier].cid = a.cid

\* A record updated twice, the second time from one cid to another: its
\* parent_cid is the first cid, which differs from the parent_cid before.
C6_Witness ==
    \E id \in DOMAIN Streams :
        /\ Len(events) > 0 /\ events[Len(events)][1] = "TxUpdate"
        /\ events[Len(events)][2] = id
        /\ Streams[id].parent_cid = Some("c1")
        /\ Streams[id].cid = Some("c2")

\* create is given a link to an existing record that is revoked.
LinkRevoked(a) ==
    /\ a.link # None
    /\ a.link[1] \in DOMAIN Streams
    /\ Streams[a.link[1]].revoked

\* C7 as stated: create with a link to an existing revoked record always fails
\* with StreamLinkRevoked and leaves the four stores unchanged.
C7_Original ==
    \A a \in CreateArgs :
        LinkRevoked(a) =>
            /\ create(Store, a).res = "StreamLinkRevoked"
            /\ create(Store, a).st = Store

\* C7 amended: create with a link to an existing revoked record never returns
\* Ok and leaves the four stores unchanged, so the target's link vector gains
\* no entry; the error is StreamLinkRevoked exactly when every earlier check
\* passes (the caller resolves, hash # identifier, the cid is absent or valid,
\* the identifier is not anchored yet, the schema is absent or accepted), and
\* the earlier check's error otherwise.
C7_RevokedLinkRejected ==
    \A a \in CreateArgs :
        LinkRevoked(a) =>
            LET r == create(Store, a) IN
            /\ r.res # "Ok"
            /\ r.st = Store
            /\ r.res = "StreamLinkRevoked" <=>
                  /\ ensure_origin(a.origin).ok
                  /\ a.hash # a.identifier
                  /\ a.cid # None => is_valid(a.cid[1])
                  /\ a.identifier \notin DOMAIN Streams
                  /\ a.schema # None => schema_status(a.schema[1], a.origin)

\* A revoked record without links: one create linking to it is refused with
\* StreamLinkRevoked, another with SameIdentifierAndHash.
C7_Witness ==
    /\ \E a \in CreateArgs : LinkRevoked(a) /\ links_of(Links, a.link[1]) = <<>>
          /\ create(Store, a).res = "StreamLinkRevoked"
    /\ \E a \in CreateArgs : LinkRevoked(a)
          /\ create(Store, a).res = "SameIdentifierAndHash"

\* C8: the link vector of a target only grows, by one entry per step, and only
\* in a step that is a successful create of a new record whose link is the
\* target, taken when the target exists and is not revoked; the entry names
\* the new record and its controller.  No update or set_status step, of the
\* target or of the source, removes or alters an entry.
C8_LinksOnlyAddedByCreate ==
    [][\A t \in Ids :
          LET old == links_of(Links, t)
              new == links_of(Links', t)
          IN /\ IsPrefix(old, new)
             /\ new # old =>
                   /\ t \in DOMAIN Streams
                   /\ ~Streams[t].revoked
                   /\ Len(events') = Len(events) + 1
                   /\ events'[Len(events')][1] = "TxAdd"
                   /\ LET s == events'[Len(events')][2] IN
                      /\ s \notin DOMAIN Streams
                      /\ Streams'[s].link = Some(t)
                      /\ new = Append(old, [identifier |-> s,
                                            controller |-> Streams'[s].controller])]_vars

\* A target revoked after it was linked still has its link entry.
C8_Witness ==
    \E t \in DOMAIN Streams :
        /\ Len(links_of(Links, t)) = 1
        /\ Streams[t].revoked
        /\ Len(history(Commits, t)) >= 2
        /\ LastEventIs(<<"TxStatus", t, Streams[t].controller>>)

\* Every stored hash differs from the identifier it is stored under.
HashNeverIdentifier ==
    /\ \A id \in DOMAIN Streams : Streams[id].hash # id
    /\ \A id \in DOMAIN Commits :
          \A i \in 1..Len(Commits[id]) : Commits[id][i].hash # id

\* C9 as stated: HashNeverIdentifier holds, and create and update with hash
\* equal to the identifier fail with SameIdentifierAndHash, changing nothing.
C9_Original ==
    /\ HashNeverIdentifier
    /\ \A a \in CreateArgs : a.hash = a.identifier =>
          create(Store, a).res = "SameIdentifierAndHash" /\ create(Store, a).st = Store
    /\ \A a \in UpdateArgs : a.hash = a.identifier =>
          update(Store, a).res = "SameIdentifierAndHash" /\ update(Store, a).st = Store

\* C9 amended: every record's hash and every commit's hash differ from the
\* record's identifier; create and update with hash equal to the identifier
\* change nothing and fail with SameIdentifierAndHash when the caller resolves
\* to a controller (for update also when the record does not exist), and with
\* BadOrigin when it does not.
C9_HashDiffersFromIdentifier ==
    /\ HashNeverIdentifier
    /\ \A a \in CreateArgs : a.hash = a.identifier =>
          LET r == create(Store, a) IN
          /\ r.st = Store
          /\ r.res = IF ensure_origin(a.origin).ok
                     THEN "SameIdentifierAndHash" ELSE "BadOrigin"
    /\ \A a \in UpdateArgs : a.hash = a.identifier =>
          LET r == update(Store, a) IN
          /\ r.st = Store
          /\ r.res = IF ensure_origin(a.origin).ok
                     THEN "SameIdentifierAndHash" ELSE "BadOrigin"

\* An updated record whose controller is refused an update to hash =
\* identifier, while a create with hash = identifier is refused likewise.
C9_Witness ==
    /\ \E a \in UpdateArgs :
          /\ a.hash = a.identifier
          /\ a.identifier \in DOMAIN Streams
          /\ a.origin = Streams[a.identifier].controller
          /\ Len(history(Commits, a.identifier)) >= 2
          /\ update(Store, a).res = "SameIdentifierAndHash"
    /\ \E a \in CreateArgs :
          /\ a.hash = a.identifier
          /\ create(Store, a).res = "SameIdentifierAndHash"

\* C10: across every step no record disappears, a record that appears has
\* revoked = false, and the revoked flag of an existing record changes only in
\* a step that is a successful set_status on that record by its controller
\* (one TxStatus event for it is deposited); create, update and calls on other
\* records leave it as it was.
C10_RevokedOnlyBySetStatus ==
    [][/\ DOMAIN Streams \subseteq DOMAIN Streams'
       /\ \A id \in DOMAIN Streams' :
             IF id \notin DOMAIN Streams
             THEN ~Streams'[id].revoked
             ELSE Streams'[id].revoked # Streams[id].revoked =>
                     events' = Append(events,
                                      <<"TxStatus", id, Streams[id].controller>>)]_vars

\* A link target revoked after its source was created: the source, which
\* links to it, is still not revoked.
C10_Witness ==
    \E t \in DOMAIN Streams : \E s \in DOMAIN Streams :
        /\ Streams[t].revoked
        /\ Streams[s].link = Some(t)
        /\ ~Streams[s].revoked
        /\ LastEventIs(<<"TxStatus", t, Streams[t].controller>>)

\* The results a dispatchable hands back to its caller: Ok or one of the
\* errors of the pallet (BadOrigin is the origin check's error).
DispatchResults ==
    {"Ok", "BadOrigin", "SameIdentifierAndHash", "InvalidCidEncoding",
     "StreamAlreadyAnchored", "SchemaError", "StreamLinkNotFound",
     "StreamLinkRevoked", "StreamNotFound", "CidAlreadyAnchored",
     "StreamRevoked", "UnauthorizedOperation", "StatusChangeNotRequired"}

\* The caller resolves to the controller stored for the existing record id.
IsController(origin, id) ==
    /\ id \in DOMAIN Streams
    /\ ensure_origin(origin).ok
    /\ ensure_origin(origin).val = Streams[id].controller

\* C11 as stated: in every reachable state every create, update and
\* set_status call, whatever its arguments, ends with Ok or with an error;
\* none of them aborts without a result.
C11_Original ==
    /\ \A a \in CreateArgs : create(Store, a).res \in DispatchResults
    /\ \A a \in UpdateArgs : update(Store, a).res \in DispatchResults
    /\ \A a \in StatusArgs : set_status(Store, a).res \in DispatchResults

\* C12 as stated: an update that gives a cid, made by the controller of an
\* existing record that is not revoked, with hash # identifier and a valid
\* cid, returns Ok when the cid differs from the stored one (a record without
\* a cid counting as different) and CidAlreadyAnchored when it equals it.
C12_Original ==
    \A a \in UpdateArgs :
        (/\ a.cid # None
         /\ IsController(a.origin, a.identifier)
         /\ ~Streams[a.identifier].revoked
         /\ a.hash # a.identifier
         /\ is_valid(a.cid[1]))
        => update(Store, a).res =
              IF a.cid = Streams[a.identifier].cid
              THEN "CidAlreadyAnchored" ELSE "Ok"

\* C13: while a record is revoked no update of it returns Ok and every update
\* of it leaves Streams, Commits, Hashes, Links and the events as they were;
\* called by the record's controller with hash # identifier and no cid it
\* returns StreamRevoked.  Whenever a set_status(id, false) returns Ok, an
\* update of id by the same caller with hash # identifier and no cid returns
\* Ok in the state that set_status leaves.
C13_NoUpdateWhileRevoked ==
    /\ \A a \in UpdateArgs :
          (a.identifier \in DOMAIN Streams /\ Streams[a.identifier].revoked) =>
             LET r == update(Store, a) IN
             /\ r.res # "Ok"
             /\ r.st = Store
             /\ (IsController(a.origin, a.identifier)
                   /\ a.hash # a.identifier /\ a.cid = None)
                => r.res = "StreamRevoked"
    /\ \A s \in StatusArgs :
          LET r == set_status(Store, s) IN
          (r.res = "Ok" /\ ~s.status) =>
             \A a \in UpdateArgs :
                (/\ a.identifier = s.identifier
                 /\ a.origin = s.origin
                 /\ a.hash # a.identifier
                 /\ a.cid = None)
                => update(r.st, a).res = "Ok"

\* A record that was updated and then revoked: its controller's update is
\* now refused with StreamRevoked, and is accepted in the state its
\* set_status(id, false) leaves.
C13_Witness ==
    \E id \in DOMAIN Streams :
        /\ Streams[id].revoked
        /\ \E i \in 1..Len(history(Commits, id)) :
              history(Commits, id)[i].commit = "Update"
        /\ LastEventIs(<<"TxStatus", id, Streams[id].controller>>)
        /\ \E a \in UpdateArgs :
              /\ a.identifier = id
              /\ a.origin = Streams[id].controller
              /\ a.cid = None
              /\ update(Store, a).res = "StreamRevoked"
              /\ LET r == set_status(Store, [origin |-> a.origin, identifier |-> id,
                                             status |-> FALSE, block |-> block_number])
                 IN r.res = "Ok" /\ update(r.st, a).res = "Ok"

\* Across a step every record stays in Streams with the schema and the link
\* it has.
RecordsKeepSchemaAndLink ==
    /\ DOMAIN Streams \subseteq DOMAIN Streams'
    /\ \A id \in DOMAIN Streams :
          /\ Streams'[id].schema = Streams[id].schema
          /\ Streams'[id].link = Streams[id].link

\* C15 as stated: across every step records stay in Streams with their schema
\* and link, and in the state reached every create of an identifier that is
\* already anchored returns StreamAlreadyAnchored, whatever its other
\* arguments.
C15_Original ==
    [][/\ RecordsKeepSchemaAndLink
       /\ (\A a \in CreateArgs : a.identifier \in DOMAIN Streams
              => create(Store, a).res = "StreamAlreadyAnchored")']_vars

\* C15 amended: across every step records stay in Streams with their schema
\* and link, and in the state reached every create of an identifier that is
\* already anchored changes nothing and fails: with BadOrigin when the caller
\* does not resolve to a controller, else with SameIdentifierAndHash when
\* hash = identifier, else with InvalidCidEncoding when the cid is invalid,
\* and with StreamAlreadyAnchored otherwise.
C15_RecordsStayAnchored ==
    [][/\ RecordsKeepSchemaAndLink
       /\ (\A a \in CreateArgs : a.identifier \in DOMAIN Streams =>
              LET r == create(Store, a) IN
              /\ r.st = Store
              /\ r.res = IF ~ensure_origin(a.origin).ok THEN "BadOrigin"
                         ELSE IF a.hash = a.identifier THEN "SameIdentifierAndHash"
                         ELSE IF a.cid # None /\ ~is_valid(a.cid[1])
                              THEN "InvalidCidEncoding"
                         ELSE "StreamAlreadyAnchored")']_vars

\* A record created with a schema and a link and changed since, whose second
\* create by its controller is refused with StreamAlreadyAnchored.
C15_Witness ==
    \E id \in DOMAIN Streams :
        /\ Streams[id].schema # None
        /\ Streams[id].link # None
        /\ Len(history(Commits, id)) >= 2
        /\ \E a \in CreateArgs :
              /\ a.identifier = id
              /\ a.origin = Streams[id].controller
              /\ create(Store, a).res = "StreamAlreadyAnchored"

\* The map hashes2 is hashes with key h set to id and nothing else changed;
\* no key of hashes is missing from it.
HashWritten(hashes, hashes2, h, id) ==
    /\ DOMAIN hashes2 = DOMAIN hashes \cup {h}
    /\ hashes2[h] = id
    /\ \A k \in DOMAIN hashes : k # h => hashes2[k] = hashes[k]

\* C16: in every reachable state a create or update that returns Ok with
\* hash h leaves Hashes with h mapped to the call's identifier, whatever h
\* was mapped to before, and with every other key as it was (none removed);
\* no set_status call changes Hashes.
C16_HashIndexLastWriterWins ==
    /\ \A a \in CreateArgs : LET r == create(Store, a) IN
          r.res = "Ok" => HashWritten(Hashes, r.st.Hashes, a.hash, a.identifier)
    /\ \A a \in UpdateArgs : LET r == update(Store, a) IN
          r.res = "Ok" => HashWritten(Hashes, r.st.Hashes, a.hash, a.identifier)
    /\ \A a \in StatusArgs : set_status(Store, a).st.Hashes = Hashes

\* Two records hold the same hash h and the one created last took the
\* mapping of h over; an update of it to another hash leaves h mapped to it.
C16_Witness ==
    \E id \in DOMAIN Streams : \E other \in DOMAIN Streams :
        LET h == Streams[id].hash IN
        /\ other # id
        /\ Streams[other].hash = h
        /\ Hashes[h] = id
        /\ LastEventIs(<<"TxAdd", id, h, Streams[id].controller>>)
        /\ \E a \in UpdateArgs : LET r == update(Store, a) IN
              /\ a.identifier = id
              /\ a.hash # h
              /\ r.res = "Ok"
              /\ r.st.Streams[id].hash = a.hash
              /\ r.st.Hashes[h] = id

\* C17: in every reachable state (block_number never decreases) the commits of
\* every record are in non-decreasing order of their block, and the block of
\* the record is at least the block of each of its commits.
C17_HistoryOrderedByBlock ==
    \A id \in Ids :
        LET h == history(Commits, id) IN
        /\ \A i \in 1..Len(h) : \A j \in i..Len(h) : h[i].block <= h[j].block
        /\ \A i \in 1..Len(h) :
              id \in DOMAIN Streams /\ h[i].block <= Streams[id].block

\* A record whose commits were made in two different blocks and whose last
\* change was a set_status in the later block.
C17_Witness ==
    \E id \in DOMAIN Streams :
        LET h == history(Commits, id) IN
        /\ Len(h) = 3
        /\ h[1].block < h[3].block
        /\ h[3].commit = "StatusChange"
        /\ Streams[id].block = h[3].block

\* C18: in every reachable state a set_status(id, v) that returns Ok leaves
\* Streams as it was except that record id has revoked = v and the current
\* block; it leaves Hashes and Links as they were, appends to the commits of
\* id one StatusChange commit with the record's hash and cid and the current
\* block, and leaves the commits of every other record as they were.
C18_SetStatusFrame ==
    \A a \in StatusArgs :
        LET r == set_status(Store, a)
            id == a.identifier
        IN r.res = "Ok" =>
           /\ r.st.Streams = [Streams EXCEPT ![id] =
                                 [@ EXCEPT !.revoked = a.status, !.block = a.block]]
           /\ r.st.Hashes = Hashes
           /\ r.st.Links = Links
           /\ history(r.st.Commits, id) =
                 Append(history(Commits, id),
                        [hash |-> Streams[id].hash, cid |-> Streams[id].cid,
                         block |-> a.block, commit |-> "StatusChange"])
           /\ \A other \in Ids \ {id} :
                 history(r.st.Commits, other) = history(Commits, other)

\* The last dispatch was a set_status on a record that has a cid, in a later
\* block than its creation, while another record links to it: its last commit
\* is a StatusChange with the record's hash and cid.
C18_Witness ==
    \E id \in DOMAIN Streams :
        LET h == history(Commits, id) IN
        /\ LastEventIs(<<"TxStatus", id, Streams[id].controller>>)
        /\ Streams[id].cid # None
        /\ links_of(Links, id) # <<>>
        /\ h[1].block < Streams[id].block
        /\ h[Len(h)] = [hash |-> Streams[id].hash, cid |-> Streams[id].cid,
                        block |-> Streams[id].block, commit |-> "StatusChange"]

\* C19: in every reachable state each record's controller is the controller
\* named in the one TxAdd event of its creation, and an update or set_status
\* that returns Ok leaves the controller of every record as it was.
C19_ControllerNeverChanges ==
    /\ \A id \in DOMAIN Streams :
          /\ \E i \in 1..Len(events) :
                events[i][1] = "TxAdd" /\ events[i][2] = id
          /\ \A i \in 1..Len(events) :
                (events[i][1] = "TxAdd" /\ events[i][2] = id)
                => events[i][4] = Streams[id].controller
    /\ \A a \in UpdateArgs : LET r == update(Store, a) IN
          r.res = "Ok" => \A id \in DOMAIN Streams :
                             r.st.Streams[id].controller = Streams[id].controller
    /\ \A a \in StatusArgs : LET r == set_status(Store, a) IN
          r.res = "Ok" => \A id \in DOMAIN Streams :
                             r.st.Streams[id].controller = Streams[id].controller

\* A record that was created, updated and updated again, always by the
\* account that created it, while the other account's update is refused with
\* UnauthorizedOperation.
C19_Witness ==
    \E id \in DOMAIN Streams :
        /\ EventCount(id) = 3
        /\ LastEventIs(<<"TxUpdate", id, Streams[id].hash, Streams[id].controller>>)
        /\ \A i \in 1..Len(events) : events[i][Len(events[i])] = Streams[id].controller
        /\ \E a \in UpdateArgs :
              /\ a.identifier = id
              /\ NotController(a.origin, id)
              /\ update(Store, a).res = "UnauthorizedOperation"

\* C20: in every reachable state an identifier is in Streams exactly when its
\* commit history is not empty, and the hash, cid and block of each record
\* are those of the last commit of its history.
C20_RecordAgreesWithLastCommit ==
    \A id \in Ids :
        LET h == history(Commits, id) IN
        /\ id \in DOMAIN Streams <=> h # <<>>
        /\ id \in DOMAIN Streams =>
              /\ Streams[id].hash = h[Len(h)].hash
              /\ Streams[id].cid = h[Len(h)].cid
              /\ Streams[id].block = h[Len(h)].block

\* A record created in one block and updated to another hash and cid in a
\* later block, beside an identifier that has neither a record nor commits.
C20_Witness ==
    /\ \E id \in DOMAIN Streams :
          LET h == history(Commits, id) IN
          /\ LastEventIs(<<"TxUpdate", id, Streams[id].hash, Streams[id].controller>>)
          /\ h[1].hash # Streams[id].hash
          /\ h[1].cid # Streams[id].cid
          /\ Streams[id].cid # None
          /\ h[1].block < Streams[id].block
    /\ \E id \in Ids : id \notin DOMAIN Streams /\ history(Commits, id) = <<>>

\* The position of the TxAdd event of record id in the events, 0 when none.
CreatedAt(id) ==
    LET I == {i \in 1..Len(events) : events[i][1] = "TxAdd" /\ events[i][2] = id}
    IN IF I = {} THEN 0 ELSE CHOOSE i \in I : TRUE

\* C21: in every reachable state, for every target t the link vector of t has
\* an entry naming source s exactly when record s exists with link = Some(t),
\* it has at most one entry per source, each entry's controller is the
\* controller of its source, a target with a non-empty link vector is an
\* existing record, no record links to itself, and every link target was
\* created before its source (so the links form no cycle).
C21_LinkTableMirrorsLinks ==
    /\ DOMAIN Streams \subseteq LinkIds
    /\ DOMAIN Links \subseteq LinkIds
    /\ \A t \in LinkIds :
          LET ls == links_of(Links, t) IN
          /\ \A s \in LinkIds :
                (\E i \in 1..Len(ls) : ls[i].identifier = s)
                <=> (s \in DOMAIN Streams /\ Streams[s].link = Some(t))
          /\ \A i \in 1..Len(ls) : \A j \in 1..Len(ls) :
                ls[i].identifier = ls[j].identifier => i = j
          /\ \A i \in 1..Len(ls) :
                /\ ls[i].identifier \in DOMAIN Streams
                /\ ls[i].controller = Streams[ls[i].identifier].controller
          /\ ls # <<>> => t \in DOMAIN Streams
    /\ \A s \in DOMAIN Streams :
          /\ Streams[s].link # Some(s)
          /\ Streams[s].link # None =>
                /\ Streams[s].link[1] \in DOMAIN Streams
                /\ 0 < CreatedAt(Streams[s].link[1])
                /\ CreatedAt(Streams[s].link[1]) < CreatedAt(s)

\* A target linked from two sources that have different controllers.
C21_Witness ==
    \E t \in DOMAIN Streams :
        LET ls == links_of(Links, t) IN
        /\ Len(ls) = 2
        /\ ls[1].controller # ls[2].controller
        /\ Streams[ls[1].identifier].link = Some(t)
        /\ Streams[ls[2].identifier].link = Some(t)

====
